---- MODULE Spec2Model ----
(***************************************************************************)
(* The FinancialTone validator of src/validator/main.py.                   *)
(*                                                                         *)
(* One validator instance is constructed (its text-classification          *)
(* pipeline is built once), then validate(value, metadata) is called       *)
(* repeatedly.  Strings the code inspects (tone names, predicted labels,   *)
(* numeric strings, the failure message) are sequences of characters so    *)
(* that str.lower(), float() and the f-string are computed, not assumed.   *)
(* Scores and thresholds are floats, kept in hundredths (0.8 is 80).       *)
(* Assertions are modelled as executed (the interpreter's default mode).   *)
(***************************************************************************)
EXTENDS Integers, Sequences, FiniteSets, TLC

VARIABLES self, pipelinesBuilt, pipeCalls, calls, value, metadata, outcome, steps

vars == <<self, pipelinesBuilt, pipeCalls, calls, value, metadata, outcome, steps>>

\* Number of validate calls made in one behaviour.
MaxCalls == 3

----------------------------------------------------------------------------
\* Python values that travel through the metadata dict.

PyStr(chars) == [ty |-> "str", s |-> chars, n |-> 0]

PyFloat(hundredths) == [ty |-> "float", s |-> <<>>, n |-> hundredths]

s_positive == <<"p", "o", "s", "i", "t", "i", "v", "e">>

s_negative == <<"n", "e", "g", "a", "t", "i", "v", "e">>

s_neutral == <<"n", "e", "u", "t", "r", "a", "l">>

s_Positive == <<"P", "o", "s", "i", "t", "i", "v", "e">>

s_Negative == <<"N", "e", "g", "a", "t", "i", "v", "e">>

s_Neutral == <<"N", "e", "u", "t", "r", "a", "l">>

s_POSITIVE == <<"P", "O", "S", "I", "T", "I", "V", "E">>

UpperCase == <<"A", "B", "C", "D", "E", "F", "G", "H", "I", "J", "K", "L", "M",
               "N", "O", "P", "Q", "R", "S", "T", "U", "V", "W", "X", "Y", "Z">>

LowerCase == <<"a", "b", "c", "d", "e", "f", "g", "h", "i", "j", "k", "l", "m",
               "n", "o", "p", "q", "r", "s", "t", "u", "v", "w", "x", "y", "z">>

\* str.lower(): every upper-case letter is replaced, everything else is kept.
lower_char(c) ==
    IF \E i \in 1..26 : UpperCase[i] = c
    THEN LowerCase[CHOOSE i \in 1..26 : UpperCase[i] = c]
    ELSE c

lower(chars) == [i \in 1..Len(chars) |-> lower_char(chars[i])]

Digits == <<"0", "1", "2", "3", "4", "5", "6", "7", "8", "9">>

IsDigit(c) == \E i \in 1..10 : Digits[i] = c

DigitValue(c) == (CHOOSE i \in 1..10 : Digits[i] = c) - 1

\* The numeric strings of the model have the shape d.d or d.dd.
IsDecimal(chars) ==
    /\ Len(chars) \in {3, 4}
    /\ IsDigit(chars[1])
    /\ chars[2] = "."
    /\ \A i \in 3..Len(chars) : IsDigit(chars[i])

DecimalValue(chars) ==
    DigitValue(chars[1]) * 100 + DigitValue(chars[3]) * 10
        + (IF Len(chars) = 4 THEN DigitValue(chars[4]) ELSE 0)

\* Exceptions: the type and the message of the raise site.
NoExc == [type |-> "", msg |-> ""]

ToneAssertion ==
    [type |-> "AssertionError",
     msg |-> "The key `financial_tone` must be one of 'positive', 'negative', 'neutral."]

LabelAssertion == [type |-> "AssertionError", msg |-> ""]

NoPrediction == [type |-> "RuntimeError", msg |-> "Failed to get model prediction."]

FloatValueError == [type |-> "ValueError", msg |-> "could not convert string to float"]

\* float(x) of line 95: a float is kept, a string is parsed or rejected.
float(x) ==
    IF x.ty = "float" THEN [exc |-> NoExc, v |-> x.n]
    ELSE IF IsDecimal(x.s) THEN [exc |-> NoExc, v |-> DecimalValue(x.s)]
    ELSE [exc |-> FloatValueError, v |-> 0]

\* dict.get(key, default)
dict_get(d, key, default) == IF key \in DOMAIN d THEN d[key] ELSE default

----------------------------------------------------------------------------
\* Class attributes.

DEFAULT_THRESHOLD == 80

\* Variant: the default tone is "positive".
DEFAULT_TONE_positive == PyStr(s_positive)

DEFAULT_TONE == PyStr(s_neutral)

----------------------------------------------------------------------------
\* The pre-trained classifier, an external collaborator: a fixed response per
\* text.  A response is the list the pipeline returns; only its first element
\* is read.  The last two texts draw labels outside the documented label set.

Texts ==
    {"Revenue rose sharply.", "Revenue rose.", "Revenue fell sharply.",
     "Revenue fell.", "Revenue was flat.", "I'm okay.", "",
     "REVENUE ROSE", "revenue rose"}

FinBert(text) ==
    CASE text = "Revenue rose sharply." -> <<[label |-> s_Positive, score |-> 90]>>
      [] text = "Revenue rose."         -> <<[label |-> s_Positive, score |-> 80]>>
      [] text = "Revenue fell sharply." -> <<[label |-> s_Negative, score |-> 90]>>
      [] text = "Revenue fell."         -> <<[label |-> s_Negative, score |-> 80]>>
      [] text = "Revenue was flat."     -> <<[label |-> s_Neutral, score |-> 90]>>
      [] text = "I'm okay."             -> <<[label |-> s_Neutral, score |-> 80]>>
      [] text = "REVENUE ROSE"          -> <<[label |-> s_POSITIVE, score |-> 90]>>
      [] text = "revenue rose"          -> <<[label |-> s_positive, score |-> 90]>>
      [] OTHER                          -> <<>>

\* The metadata dicts a caller passes: each key present or absent.
ToneValues == {PyStr(s_positive), PyStr(s_negative), PyStr(s_neutral), PyStr(s_Positive)}

ThresholdValues ==
    {PyFloat(80), PyFloat(90), PyStr(<<"0", ".", "9">>), PyStr(<<"a", "b", "c">>)}

Metadatas ==
    {<<>>}
    \cup {[k \in {"financial_tone"} |-> t] : t \in ToneValues}
    \cup {[k \in {"financial_tone_threshold"} |-> th] : th \in ThresholdValues}
    \cup {[k \in {"financial_tone", "financial_tone_threshold"} |->
              IF k = "financial_tone" THEN t ELSE th] :
          t \in ToneValues, th \in ThresholdValues}

----------------------------------------------------------------------------
\* FinancialTone.__init__: the pipeline is built and kept in self._pipe.

pipeline(built) == built + 1

init_self == [_pipe |-> pipeline(0)]

\* Variant: the pipeline is rebuilt before every inference.
invoke_pipe_rebuilt(this, text) ==
    [self |-> [_pipe |-> pipeline(this._pipe)], built |-> 1,
     steps |-> <<"self._pipe">>, result |-> FinBert(text)]

\* Variant: the first prediction is kept on the instance and reused.
invoke_pipe_cached(this, text) ==
    IF "_last" \in DOMAIN this
    THEN [self |-> this, built |-> 0, steps |-> <<>>, result |-> this._last]
    ELSE [self |-> [_pipe |-> this._pipe, _last |-> FinBert(text)], built |-> 0,
          steps |-> <<"self._pipe">>, result |-> FinBert(text)]

\* Variant: an empty result is retried once.
invoke_pipe_retry(this, text) ==
    [self |-> this, built |-> 0, result |-> FinBert(text),
     steps |-> IF FinBert(text) = <<>> THEN <<"self._pipe", "self._pipe">>
               ELSE <<"self._pipe">>]

\* Line 74: result = self._pipe(value)
invoke_pipe(this, text) ==
    [self |-> this, built |-> 0, steps |-> <<"self._pipe">>, result |-> FinBert(text)]

\* Line 75: if not result
no_result(result) == result = <<>>

\* Variant: any label is accepted.
assert_pred_label_skipped(pred_label) == TRUE

\* Line 79: assert pred_label in ["Positive", "Negative", "Neutral"]
assert_pred_label(pred_label) == pred_label \in {s_Positive, s_Negative, s_Neutral}

\* Variant: the comparison is not strict.
tone_matches_at_threshold(pred_label, confidence, financial_tone, threshold) ==
    /\ PyStr(lower(pred_label)) = financial_tone
    /\ confidence >= threshold

\* Line 83: pred_label.lower() == financial_tone and confidence > threshold
tone_matches(pred_label, confidence, financial_tone, threshold) ==
    /\ PyStr(lower(pred_label)) = financial_tone
    /\ confidence > threshold

\* Variant: an empty result is reported as a mismatch instead of raised.
on_no_result_return_false(p) ==
    [self |-> p.self, built |-> p.built, exc |-> NoExc, ret |-> FALSE,
     steps |-> p.steps \o <<"if not result">>]

\* Line 76: raise RuntimeError("Failed to get model prediction.")
on_no_result(p) ==
    [self |-> p.self, built |-> p.built, exc |-> NoPrediction, ret |-> FALSE,
     steps |-> p.steps \o <<"if not result">>]

has_correct_financial_tone(this, text, financial_tone, threshold) ==
    LET p == invoke_pipe(this, text) IN
    IF no_result(p.result)
    THEN on_no_result(p)
    ELSE LET pred_label == p.result[1].label
             confidence == p.result[1].score
         IN IF ~assert_pred_label(pred_label)
            THEN [self |-> p.self, built |-> p.built, exc |-> LabelAssertion, ret |-> FALSE,
                  steps |-> p.steps \o <<"if not result", "assert pred_label">>]
            ELSE [self |-> p.self, built |-> p.built, exc |-> NoExc,
                  ret |-> tone_matches(pred_label, confidence, financial_tone, threshold),
                  steps |-> p.steps \o <<"if not result", "assert pred_label", "compare">>]

\* Variant: the expected tone is compared case-insensitively.
assert_financial_tone_any_case(financial_tone) ==
    PyStr(lower(financial_tone.s)) \in {PyStr(s_positive), PyStr(s_negative), PyStr(s_neutral)}

\* Lines 90-94: assert financial_tone in ["positive", "negative", "neutral"]
assert_financial_tone(financial_tone) ==
    financial_tone \in {PyStr(s_positive), PyStr(s_negative), PyStr(s_neutral)}

\* Variant: the threshold is converted before the tone is checked.
unpack_metadata_float_first(this, md) ==
    LET financial_tone == dict_get(md, "financial_tone", DEFAULT_TONE)
        f == float(dict_get(md, "financial_tone_threshold", PyFloat(DEFAULT_THRESHOLD)))
    IN IF f.exc # NoExc
       THEN [self |-> this, exc |-> f.exc, financial_tone |-> financial_tone,
             threshold |-> 0, steps |-> <<"float">>]
       ELSE IF ~assert_financial_tone(financial_tone)
       THEN [self |-> this, exc |-> ToneAssertion, financial_tone |-> financial_tone,
             threshold |-> 0, steps |-> <<"float", "assert financial_tone">>]
       ELSE [self |-> this, exc |-> NoExc, financial_tone |-> financial_tone,
             threshold |-> f.v, steps |-> <<"float", "assert financial_tone">>]

unpack_metadata(this, md) ==
    LET financial_tone == dict_get(md, "financial_tone", DEFAULT_TONE) IN
    IF ~assert_financial_tone(financial_tone)
    THEN [self |-> this, exc |-> ToneAssertion, financial_tone |-> financial_tone,
          threshold |-> 0, steps |-> <<"assert financial_tone">>]
    ELSE LET f == float(dict_get(md, "financial_tone_threshold", PyFloat(DEFAULT_THRESHOLD)))
         IN [self |-> this, exc |-> f.exc, financial_tone |-> financial_tone,
             threshold |-> f.v, steps |-> <<"assert financial_tone", "float">>]

\* Variant: the tone is formatted with its quotes (!r).
error_message_repr(financial_tone) ==
    <<"T", "h", "e", " ", "g", "e", "n", "e", "r", "a", "t", "e", "d", " ",
      "t", "e", "x", "t", " ", "d", "i", "d", "n", "'", "t", " ",
      "h", "a", "v", "e", " ", "t", "o", "n", "e", " ">>
    \o <<"'">> \o financial_tone.s \o <<"'", ".">>

\* Line 105: f"The generated text didn't have tone {financial_tone}."
error_message(financial_tone) ==
    <<"T", "h", "e", " ", "g", "e", "n", "e", "r", "a", "t", "e", "d", " ",
      "t", "e", "x", "t", " ", "d", "i", "d", "n", "'", "t", " ",
      "h", "a", "v", "e", " ", "t", "o", "n", "e", " ">>
    \o financial_tone.s \o <<".">>

PassResult == [kind |-> "PassResult"]

FailResult(md, message) == [kind |-> "FailResult", metadata |-> md, error_message |-> message]

Raised(exc) == [kind |-> "raise", exc |-> exc]

validate(this, text, md) ==
    LET u == unpack_metadata(this, md) IN
    IF u.exc # NoExc
    THEN [self |-> u.self, built |-> 0, steps |-> u.steps, outcome |-> Raised(u.exc)]
    ELSE LET h == has_correct_financial_tone(u.self, text, u.financial_tone, u.threshold)
         IN [self |-> h.self, built |-> h.built, steps |-> u.steps \o h.steps,
             outcome |-> IF h.exc # NoExc THEN Raised(h.exc)
                         ELSE IF ~h.ret THEN FailResult(md, error_message(u.financial_tone))
                         ELSE PassResult]

\* How often a step occurs in the trace of one call.
Count(step, trace) == Cardinality({i \in 1..Len(trace) : trace[i] = step})

----------------------------------------------------------------------------
\* State: the instance, the environment's counters, the last call (its
\* arguments, what it returned or raised, the statements it reached).

Init ==
    /\ self = init_self
    /\ pipelinesBuilt = 1
    /\ pipeCalls = 0
    /\ calls = 0
    /\ value = ""
    /\ metadata = <<>>
    /\ outcome = [kind |-> "none"]
    /\ steps = <<>>

Validate(text, md) ==
    /\ calls < MaxCalls
    /\ LET r == validate(self, text, md) IN
        /\ self' = r.self
        /\ pipelinesBuilt' = pipelinesBuilt + r.built
        /\ pipeCalls' = pipeCalls + Count("self._pipe", r.steps)
        /\ outcome' = r.outcome
        /\ steps' = r.steps
    /\ calls' = calls + 1
    /\ value' = text
    /\ metadata' = md

Next == \E text \in Texts, md \in Metadatas : Validate(text, md)

Spec == Init /\ [][Next]_vars

----------------------------------------------------------------------------
\* Vocabulary of the properties, stated on the arguments of the last call and
\* on the classifier's answer, not on the operators above.

Called == calls > 0

EnumeratedTones == {s_positive, s_negative, s_neutral}

EnumeratedLabels == {s_Positive, s_Negative, s_Neutral}

ToneSupplied(md) == "financial_tone" \in DOMAIN md

ThresholdSupplied(md) == "financial_tone_threshold" \in DOMAIN md

\* The expected tone in effect: the supplied one, "neutral" when absent.
ExpectedTone(md) == IF ToneSupplied(md) THEN md["financial_tone"].s ELSE s_neutral

ToneValid(md) == ExpectedTone(md) \in EnumeratedTones

\* Thresholds that are numbers: absent (0.8), a float, or the string "0.9".
ThresholdIsNumber(md) ==
    \/ ~ThresholdSupplied(md)
    \/ md["financial_tone_threshold"].ty = "float"
    \/ md["financial_tone_threshold"] = PyStr(<<"0", ".", "9">>)

RequestValid(md) == ToneValid(md) /\ ThresholdIsNumber(md)

\* Case-insensitive match of a predicted label with an expected tone.
LabelOfTone(tone) ==
    CASE tone = s_positive -> {s_Positive, s_POSITIVE, s_positive}
      [] tone = s_negative -> {s_Negative, s_negative}
      [] tone = s_neutral  -> {s_Neutral, s_neutral}
      [] OTHER             -> {}

Prediction == FinBert(value)

IsPass == outcome.kind = "PassResult"

IsFail == outcome.kind = "FailResult"

InvalidConfiguration == outcome.kind = "raise" /\ outcome.exc = ToneAssertion

UpstreamFailure == outcome.kind = "raise" /\ outcome.exc = NoPrediction

ContractViolation == outcome.kind = "raise" /\ outcome.exc = LabelAssertion

\* The part of an outcome a caller decides on: Pass, Fail with its message, or
\* the error raised (a FailResult also echoes the metadata it was given).
SameDecision(a, b) ==
    /\ a.kind = b.kind
    /\ a.kind = "FailResult" => a.error_message = b.error_message
    /\ a.kind = "raise" => a.exc = b.exc

----------------------------------------------------------------------------
\* C1: with an expected tone of the enumerated set and a float threshold t
\* both supplied, and a prediction (label of the documented set, confidence
\* c), validate returns Pass exactly when the label matches the tone
\* case-insensitively and c > t, and Fail otherwise; c = t is Fail.
C1_PassIffMatchAndAbove ==
    ( /\ Called
      /\ ToneSupplied(metadata) /\ ToneValid(metadata)
      /\ ThresholdSupplied(metadata)
      /\ metadata["financial_tone_threshold"].ty = "float"
      /\ Prediction # <<>>
      /\ Prediction[1].label \in EnumeratedLabels )
    => /\ IsPass <=> ( /\ Prediction[1].label \in LabelOfTone(ExpectedTone(metadata))
                       /\ Prediction[1].score > metadata["financial_tone_threshold"].n )
       /\ IsPass \/ IsFail

\* A matching label whose confidence equals the threshold was rejected.
C1_Witness ==
    /\ Called
    /\ value = "Revenue rose sharply."
    /\ ToneSupplied(metadata) /\ metadata["financial_tone"] = PyStr(s_positive)
    /\ ThresholdSupplied(metadata) /\ metadata["financial_tone_threshold"] = PyFloat(90)
    /\ Prediction[1].score = 90
    /\ IsFail

\* C2: a supplied expected tone outside {positive, negative, neutral} makes
\* validate raise the tone assertion (InvalidConfiguration): neither Pass nor
\* Fail, whatever the text, the threshold and the classifier's answer.
C2_InvalidToneRaises ==
    (Called /\ ToneSupplied(metadata) /\ ~ToneValid(metadata))
    => InvalidConfiguration /\ ~IsPass /\ ~IsFail

C2_Witness ==
    /\ Called
    /\ ToneSupplied(metadata) /\ metadata["financial_tone"] = PyStr(s_Positive)
    /\ value = "Revenue rose sharply."
    /\ InvalidConfiguration

\* C3: for a valid request (tone of the enumerated set, numeric threshold)
\* whose text the classifier answers with an empty result, validate raises
\* RuntimeError (UpstreamFailure), returns neither Pass nor Fail, and that
\* call invokes the classifier once, not again.
C3_EmptyResultRaises ==
    [][ (calls' = calls + 1 /\ RequestValid(metadata') /\ FinBert(value') = <<>>)
        => /\ outcome' = Raised(NoPrediction)
           /\ pipeCalls' = pipeCalls + 1
           /\ Count("self._pipe", steps') = 1 ]_vars

C3_Witness ==
    /\ Called
    /\ RequestValid(metadata)
    /\ Prediction = <<>>
    /\ UpstreamFailure
    /\ pipeCalls >= 1

\* C4: when the predicted label is outside {"Positive", "Negative",
\* "Neutral"} (other casings included), validate never returns Pass; for a
\* valid request the call ends in the label assertion (ContractViolation) or
\* in Fail.
C4_OffContractLabelNeverPasses ==
    (Called /\ Prediction # <<>> /\ Prediction[1].label \notin EnumeratedLabels)
    => /\ ~IsPass
       /\ RequestValid(metadata) => (ContractViolation \/ IsFail)

\* "POSITIVE" with confidence above the threshold, expected tone "positive".
C4_Witness ==
    /\ Called
    /\ value = "REVENUE ROSE"
    /\ metadata = [k \in {"financial_tone"} |-> PyStr(s_positive)]
    /\ ContractViolation

\* Metadata with each absent option filled in by its documented default.
WithDefaults(md) ==
    [k \in {"financial_tone", "financial_tone_threshold"} |->
        IF k \in DOMAIN md THEN md[k]
        ELSE IF k = "financial_tone" THEN PyStr(s_neutral) ELSE PyFloat(80)]

\* C5: a call whose metadata lacks financial_tone and/or
\* financial_tone_threshold is decided exactly as the call with "neutral"
\* and/or 0.8 supplied explicitly, each default on its own.
C5_DefaultsAreNeutralAndPoint8 ==
    (Called /\ (~ToneSupplied(metadata) \/ ~ThresholdSupplied(metadata)))
    => SameDecision(outcome, validate(self, value, WithDefaults(metadata)).outcome)

\* validate(text, {}) on a Neutral prediction of confidence 0.9 passed.
C5_Witness ==
    /\ Called
    /\ metadata = <<>>
    /\ value = "Revenue was flat."
    /\ IsPass

Msg_positive ==
    <<"T", "h", "e", " ", "g", "e", "n", "e", "r", "a", "t", "e", "d", " ",
      "t", "e", "x", "t", " ", "d", "i", "d", "n", "'", "t", " ",
      "h", "a", "v", "e", " ", "t", "o", "n", "e", " ",
      "p", "o", "s", "i", "t", "i", "v", "e", ".">>

Msg_negative ==
    <<"T", "h", "e", " ", "g", "e", "n", "e", "r", "a", "t", "e", "d", " ",
      "t", "e", "x", "t", " ", "d", "i", "d", "n", "'", "t", " ",
      "h", "a", "v", "e", " ", "t", "o", "n", "e", " ",
      "n", "e", "g", "a", "t", "i", "v", "e", ".">>

Msg_neutral ==
    <<"T", "h", "e", " ", "g", "e", "n", "e", "r", "a", "t", "e", "d", " ",
      "t", "e", "x", "t", " ", "d", "i", "d", "n", "'", "t", " ",
      "h", "a", "v", "e", " ", "t", "o", "n", "e", " ",
      "n", "e", "u", "t", "r", "a", "l", ".">>

\* C6: a Fail carries exactly "The generated text didn't have tone
\* {expectedTone}." for the expected tone in effect (supplied, or "neutral"
\* by default): the message depends on the expected tone alone.
C6_FailMessageNamesExpectedTone ==
    (Called /\ IsFail)
    => outcome.error_message =
          CASE ExpectedTone(metadata) = s_positive -> Msg_positive
            [] ExpectedTone(metadata) = s_negative -> Msg_negative
            [] ExpectedTone(metadata) = s_neutral  -> Msg_neutral
            [] OTHER -> <<>>

\* Prediction Negative with confidence 0.9, expected tone "positive".
C6_Witness ==
    /\ Called
    /\ value = "Revenue fell sharply."
    /\ ToneSupplied(metadata) /\ metadata["financial_tone"] = PyStr(s_positive)
    /\ IsFail
    /\ outcome.error_message = Msg_positive

\* C7 as stated: after n validate calls the classifier has been invoked
\* exactly n times.
C7_OneInvocationPerCall == pipeCalls = calls

\* C7 amended: a validate call whose metadata is accepted (tone of the
\* enumerated set, numeric threshold) invokes the classifier exactly once, a
\* call rejected while unpacking the metadata invokes it not at all; no call
\* invokes it twice and no prediction is reused.
C7_OneInvocationPerAcceptedCall ==
    [][ calls' = calls + 1
        => /\ RequestValid(metadata') => pipeCalls' = pipeCalls + 1
           /\ ~RequestValid(metadata') => pipeCalls' = pipeCalls ]_vars

\* Three calls, the last rejected for its tone, the two before it accepted.
C7_Witness ==
    /\ calls = 3
    /\ pipeCalls = 2
    /\ InvalidConfiguration

\* C8: the outcome of validate(text, metadata) after any earlier calls on
\* the instance is the outcome the same call has on the instance as
\* constructed.
C8_OutcomeIndependentOfHistory ==
    Called => outcome = validate(init_self, value, metadata).outcome

\* A passing third call after one raising and one other call.
C8_Witness ==
    /\ calls = 3
    /\ pipeCalls = 2
    /\ IsPass

\* C9: the pipeline is built once, at construction, and the instance holds
\* that pipeline after every validate call.
C9_PipelineBuiltOnce == pipelinesBuilt = 1 /\ self._pipe = 1

\* After a call that raised on an empty result and two more calls.
C9_Witness ==
    /\ calls = 3
    /\ pipeCalls = 3
    /\ UpstreamFailure
    /\ self._pipe = 1

StatementOrder ==
    <<"assert financial_tone", "float", "self._pipe", "if not result",
      "assert pred_label", "compare">>

IsPrefix(p, q) == Len(p) <= Len(q) /\ \A i \in 1..Len(p) : p[i] = q[i]

\* C10: the statements of one call run in the order tone check, threshold
\* conversion, classifier, empty-result check, label check, comparison; with
\* an invalid expected tone the call raises the tone assertion without
\* invoking the classifier, also when the threshold is no number or the
\* classifier would answer with an empty result.
C10_ChecksInFixedOrder ==
    [][ calls' = calls + 1
        => /\ IsPrefix(steps', StatementOrder)
           /\ ~ToneValid(metadata')
              => /\ outcome' = Raised(ToneAssertion)
                 /\ pipeCalls' = pipeCalls
                 /\ steps' = <<"assert financial_tone">> ]_vars

\* Invalid tone, unconvertible threshold and a text with an empty result.
C10_Witness ==
    /\ Called
    /\ value = ""
    /\ metadata = [k \in {"financial_tone", "financial_tone_threshold"} |->
                      IF k = "financial_tone" THEN PyStr(s_Positive)
                      ELSE PyStr(<<"a", "b", "c">>)]
    /\ InvalidConfiguration
    /\ pipeCalls = 0

====
